---- MODULE Spec2Model ----
(***************************************************************************)
(* Debt / Payment lifecycle of the Debt Tracker (src/myapp/views.py,       *)
(* src/myapp/models.py, src/myapp/forms.py, src/myapp/signals.py).         *)
(*                                                                         *)
(* One action per request handler.  Every action is one POST request of an *)
(* authenticated user (a GET request of these handlers writes nothing).    *)
(* An amount k of the model is the Decimal k * 0.35 that a DecimalField     *)
(* stores (0.35, 0.70, 1.05, ...).  The rows hold k; the float arithmetic   *)
(* of the handlers on these amounts is modelled under "float amounts".      *)
(***************************************************************************)
EXTENDS Integers, Sequences, FiniteSets, TLC

\* ------------------------------------------------------------------ bounds
\* Largest Debt id the model allocates.
MaxDebts == 1
\* Largest Payment id the model allocates.
MaxPayments == 2
\* Largest amount a form submits for a Debt.
MaxAmount == 3
\* Number of requests of the superuser's console the model follows.
MaxAdminRequests == 1

\* ------------------------------------------------------------- accounts
Debtors == {"d1", "d2"}
Creditors == {"c1", "c2"}
Admins == {"admin"}
Users == Debtors \cup Creditors \cup Admins

\* CustomUser.account_type of a registered account.
account_type(u) ==
    IF u \in Debtors THEN "debtor"
    ELSE IF u \in Creditors THEN "creditor"
    ELSE "admin"

\* is_superuser(user): the test of @user_passes_test on the admin handlers.
is_superuser(u) == u \in Admins

\* The second debtor and the second creditor. No form names c2, so c2 is
\* party to no Debt. d2 records debts (AddDebt) and sends nothing else, so
\* that Debts exist to which d1 is no party; the handlers' party tests refuse
\* the two everywhere else, and the statements about refusals range over them.
Outsiders == {"d2", "c2"}

\* The accounts whose requests the actions other than AddDebt follow, by the
\* role a handler admits: one debtor, one creditor and the superuser.  A
\* request the role or party test of its handler refuses is a step that
\* changes nothing, which every specification below allows anyway.
DebtorSenders == Debtors \ Outsiders
CreditorSenders == Creditors \ Outsiders
ConsoleSenders == Admins

\* Creditor usernames a debt form carries: a creditor, an account that is no
\* creditor, and a name no account has.
Usernames == {"c1", "d1", "nobody"}

\* Debt.STATUS_CHOICES
STATUS_CHOICES ==
    {"pending_confirmation", "active", "awaiting_confirmation", "rejected", "paid"}

\* Payment.PAYMENT_METHOD_CHOICES
PAYMENT_METHOD_CHOICES == {"cash", "gcash"}

\* Values of the 'method' field of the payment form: the two choices and a
\* value that is neither.
MethodInputs == PAYMENT_METHOD_CHOICES \cup {"other"}

\* An amount field of a POST: <<a>> when the text parses as the number a,
\* <<>> when it does not parse (float() raises).
AmountInputs == {<<a>> : a \in (-1)..(MaxAmount + 1)} \cup {<<>>}

\* An uploaded file field: present or missing.
FileInputs == {"file", "none"}

\* The threads of the server that handle requests at the same time.
Workers == {"w1", "w2"}

\* A thread that handles no request.
Idle == [pc |-> "idle"]

\* The session of a user that holds no payment keys.
NoSession == [payment_debt_id |-> 0, payment_amount |-> 0, payment_method |-> ""]

\* ------------------------------------------------------------------ state
VARIABLES
    debts,          \* Debt table: id -> row
    payments,       \* Payment table: id -> row
    session,        \* request.session of each user: the three payment keys
    nextDebtId,     \* next value of the Debt id sequence
    nextPaymentId,  \* next value of the Payment id sequence
    notifications,  \* Notification rows inserted by the request recorded in last
    adminRequests,  \* requests of the superuser's console carried out so far
    last,           \* the latest request that was not refused: handler, actor,
                    \* inputs, outcome
    inflight        \* server thread -> the request it is in the middle of: its
                    \* position and the model instances it has loaded

vars == <<debts, payments, session, nextDebtId, nextPaymentId, notifications,
          adminRequests, last, inflight>>

Max(a, b) == IF a >= b THEN a ELSE b

\* Debt.balance
balance(d) == Max(0, d.amount - d.paid_amount)

\* ------------------------------------------------------------ float amounts
\* The handlers compute with Python floats (float(debt.paid_amount) +
\* payment_amount, float(self.amount) - float(self.paid_amount)) and a
\* DecimalField rounds what is saved to two places, so a row holds the exact
\* sum again while the handler decides on the float.  For the amounts
\* k * 0.35 with k in FloatRange the three sets list where the double
\* arithmetic falls below the double of the exact result.
FloatRange == (-4)..8

\* <<a, b>>, a <= b, with float(a) + float(b) < float(a + b); the first with
\* positive amounts is 0.35 + 0.70 = 1.0499999999999998 < 1.05.
SumsBelow ==
    {<<-3, 1>>, <<-3, 2>>, <<-3, 4>>, <<-3, 8>>, <<-2, 8>>, <<-1, 4>>,
     <<-1, 8>>, <<1, 2>>, <<2, 4>>, <<3, 8>>, <<4, 8>>}

\* <<a, p>>, a > p, with float(a) - float(p) < float(a - p); the first with
\* positive amounts is 1.40 - 0.35 = 1.0499999999999998 < 1.05.
DiffsBelow ==
    {<<-3, -4>>, <<-1, -4>>, <<1, -2>>, <<2, -4>>, <<2, -1>>, <<4, -2>>,
     <<4, 1>>, <<4, 3>>, <<8, -4>>, <<8, -3>>, <<8, 1>>, <<8, 2>>, <<8, 3>>,
     <<8, 5>>, <<8, 6>>, <<8, 7>>}

\* <<a, p>>, a > p, with float(p) + (float(a) - float(p)) < float(a).
CapsBelow ==
    {<<-1, -4>>, <<1, -3>>, <<1, -2>>, <<2, -4>>, <<2, -1>>, <<3, -1>>,
     <<4, -2>>, <<5, -3>>, <<6, -2>>, <<8, -4>>}

\* float(a) + float(b) < float(a + b)
SumBelow(a, b) == <<a, b>> \in SumsBelow \/ <<b, a>> \in SumsBelow

\* debt.balance <= 0 as the handler reads it on its own row, after
\* debt.paid_amount = float(debt.paid_amount) + payment_amount with
\* payment_amount the float of amount.
Settles(d, amount) ==
    \/ d.paid_amount + amount > d.amount
    \/ d.paid_amount + amount = d.amount /\ ~SumBelow(d.paid_amount, amount)

\* The same with payment_amount = float(debt.balance), the amount mark_as_paid
\* falls back to.
SettlesCapped(d) ==
    d.amount <= d.paid_amount \/ <<d.amount, d.paid_amount>> \notin CapsBelow

\* A new Debt row (field defaults of the model).
NewDebt(debtor, creditor, amount) ==
    [creditor |-> creditor, debtor |-> debtor, amount |-> amount,
     paid_amount |-> 0, status |-> "pending_confirmation",
     hidden_from_debtor |-> FALSE]

\* timezone.now() written over the timestamp t. A timestamp is 0 while it is
\* null, 1 once it holds the first time written to it, and 2 once a later
\* time has been written over that.
Now(t) == IF t = 0 THEN 1 ELSE 2

\* Payment.save: a completed Payment without payment_date or verified_at gets
\* the current time for it.
PaymentSave(payment) ==
    IF payment.status # "completed" THEN payment
    ELSE [payment EXCEPT !.payment_date = IF @ = 0 THEN Now(@) ELSE @,
                         !.verified_at = IF @ = 0 THEN Now(@) ELSE @]

\* A new Payment row: the handlers that create a completed Payment pass the
\* current time for both timestamps, upload_debtor_proof passes none.
NewPayment(debt_id, payer, amount, method, status) ==
    PaymentSave([debt |-> debt_id, payer |-> payer, amount |-> amount,
                 method |-> method, status |-> status,
                 payment_date |-> 0, verified_at |-> 0])

\* One Notification row.
Notification(user, notification_type, related_debt) ==
    [user |-> user, notification_type |-> notification_type,
     related_debt |-> related_debt]

\* The record of a request: the handler, the user, the id in the URL (or in
\* the session), the amount field and the other field of the form.
Request(op, actor, id, amount, choice) ==
    [op |-> op, actor |-> actor, id |-> id, amount |-> amount, choice |-> choice]

\* f with key k mapped to v (k may be new).
Put(f, k, v) == [x \in DOMAIN f \cup {k} |-> IF x = k THEN v ELSE f[x]]

\* f without key k.
Drop(f, k) == [x \in DOMAIN f \ {k} |-> f[x]]

\* The sum of the amounts of the Payments S of table ps.
RECURSIVE SumAmounts(_, _)
SumAmounts(ps, S) ==
    IF S = {} THEN 0
    ELSE LET p == CHOOSE x \in S : TRUE
         IN  ps[p].amount + SumAmounts(ps, S \ {p})

\* The completed Payments of Debt id in table ps.
CompletedOf(ps, id) ==
    {p \in DOMAIN ps : ps[p].debt = id /\ ps[p].status = "completed"}

\* ------------------------------------------------------------- responses
\* What a handler leaves behind: the tables, the session and the id sequences
\* after the request, the Notification rows it inserted, and its outcome:
\*   "ok"       the request was carried out,
\*   "refused"  the handler returned before writing anything (error message
\*              and redirect, or 404),
\*   "invalid"  submit_payment kept the payment in the session and then
\*              reported an invalid method,
\*   "error"    an exception ended the request after some rows were saved.
Refused ==
    [debts |-> debts, payments |-> payments, session |-> session,
     nextDebtId |-> nextDebtId, nextPaymentId |-> nextPaymentId,
     notifications |-> <<>>, outcome |-> "refused"]

Init ==
    /\ debts = <<>>
    /\ payments = <<>>
    /\ session = [u \in Users |-> NoSession]
    /\ nextDebtId = 1
    /\ nextPaymentId = 1
    /\ notifications = <<>>
    /\ adminRequests = 0
    /\ last = [req |-> Request("none", "admin", 0, <<>>, ""), outcome |-> "ok"]
    /\ inflight = [w \in Workers |-> Idle]

\* The handlers of the superuser's console.
ConsoleHandlers == {"admin_approve_payment", "admin_reject_payment", "debts_edit"}

\* One request and its response as a step: a refused request leaves every
\* variable as it is, any other request is recorded in last. The thread that
\* handles it is not interrupted, so the requests in flight stay as they are.
Respond(req, res) ==
    IF res.outcome = "refused"
    THEN UNCHANGED vars
    ELSE /\ debts' = res.debts
         /\ payments' = res.payments
         /\ session' = res.session
         /\ nextDebtId' = res.nextDebtId
         /\ nextPaymentId' = res.nextPaymentId
         /\ notifications' = res.notifications
         /\ adminRequests' =
                IF req.op \in ConsoleHandlers THEN adminRequests + 1 ELSE adminRequests
         /\ last' = [req |-> req, outcome |-> res.outcome]
         /\ inflight' = inflight

\* ------------------------------------------------------------- debt handlers
\* clean_creditor_username that asks for an account only.
clean_creditor_username_exists(username) == username \in Users

\* DebtForm.clean_creditor_username: the username is that of a creditor account.
clean_creditor_username(username) ==
    username \in Users /\ account_type(username) = "creditor"

\* DebtForm.is_valid for the fields the lifecycle reads: a creditor username
\* and an amount of at least 0.01 (MinValueValidator).
DebtFormValid(username, amount) ==
    clean_creditor_username(username) /\ amount >= 1

\* add_debt: a debtor records a new debt.
add_debt(u, username, amount) ==
    IF account_type(u) # "debtor" THEN Refused
    ELSE IF ~DebtFormValid(username, amount) THEN Refused
    ELSE [Refused EXCEPT
            !.debts = Put(debts, nextDebtId, NewDebt(u, username, amount)),
            !.nextDebtId = nextDebtId + 1,
            !.notifications = <<Notification(username, "new_debt", nextDebtId)>>,
            !.outcome = "ok"]

\* edit_debt: the debtor changes a debt that is still pending confirmation.
edit_debt(u, id, username, amount) ==
    IF id \notin DOMAIN debts THEN Refused
    ELSE IF debts[id].debtor # u THEN Refused
    ELSE IF debts[id].status # "pending_confirmation" THEN Refused
    ELSE IF ~DebtFormValid(username, amount) THEN Refused
    ELSE [Refused EXCEPT
            !.debts = [debts EXCEPT ![id].creditor = username, ![id].amount = amount],
            !.outcome = "ok"]

\* NotPending that lets every Debt through.
NotPending_never(d) == FALSE

\* The test "debt.status != 'pending_confirmation'" of confirm_debt and
\* reject_debt.
NotPending(d) == d.status # "pending_confirmation"

\* confirm_debt: the creditor accepts a pending debt.
confirm_debt(u, id) ==
    IF id \notin DOMAIN debts THEN Refused
    ELSE IF debts[id].creditor # u THEN Refused
    ELSE IF NotPending(debts[id]) THEN Refused
    ELSE [Refused EXCEPT
            !.debts = [debts EXCEPT ![id].status = "active"],
            !.notifications = <<Notification(debts[id].debtor, "debt_confirmed", id)>>,
            !.outcome = "ok"]

\* upload_proof_of_release: the creditor uploads the proof of release; a
\* pending debt becomes active.
upload_proof_of_release(u, id, proof_file) ==
    IF id \notin DOMAIN debts THEN Refused
    ELSE IF debts[id].creditor # u THEN Refused
    ELSE IF debts[id].status # "pending_confirmation" /\ debts[id].status # "active"
    THEN Refused
    ELSE IF proof_file # "file" THEN Refused
    ELSE [Refused EXCEPT
            !.debts = [debts EXCEPT ![id].status =
                          IF @ = "pending_confirmation" THEN "active" ELSE @],
            !.notifications = <<Notification(debts[id].debtor, "proof_uploaded", id)>>,
            !.outcome = "ok"]

\* reject_debt: the creditor rejects a pending debt.
reject_debt(u, id) ==
    IF id \notin DOMAIN debts THEN Refused
    ELSE IF debts[id].creditor # u THEN Refused
    ELSE IF NotPending(debts[id]) THEN Refused
    ELSE [Refused EXCEPT
            !.debts = [debts EXCEPT ![id].status = "rejected"],
            !.notifications = <<Notification(debts[id].debtor, "debt_rejected", id)>>,
            !.outcome = "ok"]

\* debt.delete(): the row goes, its Payments go with it (on_delete=CASCADE), and
\* reset_debt_id_on_empty_table restarts the id sequence once the table is empty.
DeleteDebt(id) ==
    [Refused EXCEPT
        !.debts = Drop(debts, id),
        !.payments = [p \in {x \in DOMAIN payments : payments[x].debt # id}
                         |-> payments[p]],
        !.nextDebtId = IF DOMAIN debts \ {id} = {} THEN 1 ELSE nextDebtId,
        !.outcome = "ok"]

\* SoftDelete that deletes the row as for a pending Debt.
SoftDelete_hard(id) == DeleteDebt(id)

\* The soft delete of delete_debt: the Debt is hidden from the debtor and
\* saved.
SoftDelete(id) ==
    [Refused EXCEPT
        !.debts = [debts EXCEPT ![id].hidden_from_debtor = TRUE],
        !.outcome = "ok"]

\* DebtorMayDelete that admits every status.
DebtorMayDelete_any(d) == TRUE

\* delete_debt's test of the status: pending_confirmation, rejected or paid.
DebtorMayDelete(d) == d.status \in {"pending_confirmation", "rejected", "paid"}

\* delete_debt: the debtor deletes a pending or rejected debt, or hides a paid one.
delete_debt(u, id) ==
    IF id \notin DOMAIN debts THEN Refused
    ELSE IF debts[id].debtor # u THEN Refused
    ELSE IF ~DebtorMayDelete(debts[id]) THEN Refused
    ELSE IF debts[id].status = "paid" THEN SoftDelete(id)
    ELSE DeleteDebt(id)

\* creditor_delete_debt: the creditor deletes a paid debt.
creditor_delete_debt(u, id) ==
    IF id \notin DOMAIN debts THEN Refused
    ELSE IF debts[id].creditor # u THEN Refused
    ELSE IF debts[id].status # "paid" THEN Refused
    ELSE DeleteDebt(id)

\* ---------------------------------------------------------- payment handlers
\* NotCreditor that lets every creditor account through.
NotCreditor_never(d, u) == FALSE

\* The test "debt.creditor != request.user" of mark_as_paid and
\* confirm_cash_payment.
NotCreditor(d, u) == d.creditor # u

\* The Debt row gcash_payment saves: amount added to paid_amount and, when the
\* handler reads no balance left, the status set to paid.
AddPaid(d, amount) ==
    LET paid == [d EXCEPT !.paid_amount = @ + amount]
    IN  IF Settles(d, amount) THEN [paid EXCEPT !.status = "paid"] ELSE paid

\* ExceedsBalance with the amount compared to the Debt's amount instead of
\* its remaining balance.
ExceedsBalance_of_amount(d, payment_amount) == payment_amount > d.amount

\* "payment_amount > debt.balance" of submit_payment and mark_as_paid on a
\* stored row: the float of payment_amount against
\* max(0, float(amount) - float(paid_amount)).
ExceedsBalance(d, payment_amount) ==
    IF d.amount <= d.paid_amount THEN payment_amount > 0
    ELSE \/ payment_amount > d.amount - d.paid_amount
         \/ /\ payment_amount = d.amount - d.paid_amount
            /\ <<d.amount, d.paid_amount>> \in DiffsBelow

\* mark_as_paid falls back to float(debt.balance): the field does not parse
\* or the entered amount is above the balance.
MarkCapped(d, field) == field = <<>> \/ ExceedsBalance(d, field[1])

\* The amount mark_as_paid books, as the Payment row stores it: the entered
\* amount, or the balance when it falls back to it.
MarkAmount(d, field) ==
    IF MarkCapped(d, field) THEN balance(d) ELSE field[1]

\* The Debt row mark_as_paid saves: the booked amount added to paid_amount
\* and, when the handler reads no balance left, the status set to paid.
MarkPaid(d, field) ==
    LET paid == [d EXCEPT !.paid_amount = @ + MarkAmount(d, field)]
        settled == IF MarkCapped(d, field) THEN SettlesCapped(d)
                   ELSE Settles(d, field[1])
    IN  IF settled THEN [paid EXCEPT !.status = "paid"] ELSE paid

\* mark_as_paid: the creditor books a cash payment received, with a proof.
mark_as_paid(u, id, field, creditor_proof) ==
    IF account_type(u) # "creditor" THEN Refused
    ELSE IF id \notin DOMAIN debts THEN Refused
    ELSE IF NotCreditor(debts[id], u) THEN Refused
    ELSE IF creditor_proof # "file" THEN Refused
    ELSE [Refused EXCEPT
            !.debts = [debts EXCEPT ![id] = MarkPaid(debts[id], field)],
            !.payments = Put(payments, nextPaymentId,
                             NewPayment(id, debts[id].debtor,
                                        MarkAmount(debts[id], field),
                                        "cash", "completed")),
            !.nextPaymentId = nextPaymentId + 1,
            !.notifications =
                <<Notification(debts[id].debtor, "payment_confirmed", id)>>,
            !.outcome = "ok"]

\* submit_payment: the debtor chooses the amount and the method; the choice is
\* kept in the session for the handler of the method.
submit_payment(u, id, method, field) ==
    IF account_type(u) # "debtor" THEN Refused
    ELSE IF id \notin DOMAIN debts THEN Refused
    ELSE IF debts[id].debtor # u THEN Refused
    ELSE IF field = <<>> THEN Refused
    ELSE IF field[1] <= 0 THEN Refused
    ELSE IF ExceedsBalance(debts[id], field[1]) THEN Refused
    ELSE [Refused EXCEPT
            !.session = [session EXCEPT ![u] =
                            [payment_debt_id |-> id, payment_amount |-> field[1],
                             payment_method |-> method]],
            !.outcome = IF method \in PAYMENT_METHOD_CHOICES THEN "ok" ELSE "invalid"]

\* Outcomes of generating and storing the PDF receipt: stored (or ReportLab
\* not installed), or an exception that ends the request.
ReceiptOutcomes == {"stored", "error"}

\* gcash_payment: the mock gateway completes the payment kept in the session.
gcash_payment(u, receipt) ==
    IF account_type(u) # "debtor" THEN Refused
    ELSE IF session[u].payment_debt_id = 0 THEN Refused
    ELSE IF session[u].payment_debt_id \notin DOMAIN debts THEN Refused
    ELSE IF debts[session[u].payment_debt_id].debtor # u THEN Refused
    ELSE LET id == session[u].payment_debt_id
             payment_amount == session[u].payment_amount
             saved == [Refused EXCEPT
                         !.payments = Put(payments, nextPaymentId,
                                          NewPayment(id, u, payment_amount,
                                                     "gcash", "completed")),
                         !.nextPaymentId = nextPaymentId + 1,
                         !.debts = [debts EXCEPT ![id] =
                                       AddPaid(debts[id], payment_amount)]]
         IN  IF receipt = "error"
             THEN [saved EXCEPT !.outcome = "error"]
             ELSE [saved EXCEPT
                     !.session = [session EXCEPT ![u] = NoSession],
                     !.notifications =
                         <<Notification(u, "payment_success", id),
                           Notification(debts[id].creditor, "payment_received", id)>>,
                     !.outcome = "ok"]

\* ProofSubmitted that books the payment at once, as gcash_payment does.
ProofSubmitted_applied(d, payment_amount) ==
    [d EXCEPT !.status = "awaiting_confirmation", !.paid_amount = @ + payment_amount]

\* The Debt row upload_debtor_proof saves: the Debt waits for the creditor and
\* payment_amount is not added to paid_amount.
ProofSubmitted(d, payment_amount) == [d EXCEPT !.status = "awaiting_confirmation"]

\* upload_debtor_proof: the debtor uploads the proof of the cash payment kept
\* in the session; the payment waits for the creditor.
upload_debtor_proof(u, proof_file) ==
    IF account_type(u) # "debtor" THEN Refused
    ELSE IF session[u].payment_debt_id = 0 THEN Refused
    ELSE IF session[u].payment_debt_id \notin DOMAIN debts THEN Refused
    ELSE IF debts[session[u].payment_debt_id].debtor # u THEN Refused
    ELSE IF proof_file # "file" THEN Refused
    ELSE LET id == session[u].payment_debt_id
             payment_amount == session[u].payment_amount
         IN  [Refused EXCEPT
                !.payments = Put(payments, nextPaymentId,
                                 NewPayment(id, u, payment_amount, "cash",
                                            "pending_confirmation")),
                !.nextPaymentId = nextPaymentId + 1,
                !.debts = [debts EXCEPT ![id] = ProofSubmitted(debts[id], payment_amount)],
                !.session = [session EXCEPT ![u] = NoSession],
                !.notifications =
                    <<Notification(u, "payment_submitted", id),
                      Notification(debts[id].creditor, "payment_proof_received", id)>>,
                !.outcome = "ok"]

\* Values of the 'action' field of the confirmation form.
ActionInputs == {"confirm", "reject", "other"}

\* AlreadyProcessed that lets every Payment through.
AlreadyProcessed_never(payment) == FALSE

\* confirm_cash_payment's test "payment.status != 'pending_confirmation'".
AlreadyProcessed(payment) == payment.status # "pending_confirmation"

\* ReturnToActive that only takes back what upload_debtor_proof did: a Debt
\* that is not awaiting_confirmation keeps its status.
ReturnToActive_if_awaiting(d) ==
    IF d.status = "awaiting_confirmation" THEN [d EXCEPT !.status = "active"] ELSE d

\* The Debt row the reject branch of confirm_cash_payment saves.
ReturnToActive(d) == [d EXCEPT !.status = "active"]

\* The Payment row the confirm branch of confirm_cash_payment saves over the
\* row stored: completed, both timestamps the current time.
Confirmed(payment, stored) ==
    PaymentSave([payment EXCEPT !.status = "completed",
                                !.verified_at = Now(stored.verified_at),
                                !.payment_date = Now(stored.payment_date)])

\* confirm_cash_payment: the creditor confirms or rejects a cash payment that
\* waits for confirmation.
confirm_cash_payment(u, payment_id, action, receipt) ==
    IF account_type(u) # "creditor" THEN Refused
    ELSE IF payment_id \notin DOMAIN payments THEN Refused
    ELSE IF NotCreditor(debts[payments[payment_id].debt], u) THEN Refused
    ELSE IF AlreadyProcessed(payments[payment_id]) THEN Refused
    ELSE LET payment == payments[payment_id]
             id == payment.debt
             paid == [debts[id] EXCEPT !.paid_amount = @ + payment.amount]
         IN  IF action = "confirm"
             THEN [Refused EXCEPT
                     !.payments = [payments EXCEPT ![payment_id] = Confirmed(@, @)],
                     !.debts = [debts EXCEPT ![id] =
                                   IF Settles(debts[id], payment.amount)
                                   THEN [paid EXCEPT !.status = "paid"]
                                   ELSE [paid EXCEPT !.status = "active"]],
                     !.notifications =
                         IF receipt = "error" THEN <<>>
                         ELSE <<Notification(payment.payer, "payment_confirmed", id)>>,
                     !.outcome = IF receipt = "error" THEN "error" ELSE "ok"]
             ELSE IF action = "reject"
             THEN [Refused EXCEPT
                     !.payments = [payments EXCEPT ![payment_id].status = "rejected"],
                     !.debts = [debts EXCEPT ![id] = ReturnToActive(debts[id])],
                     !.notifications =
                         <<Notification(payment.payer, "payment_rejected", id)>>,
                     !.outcome = "ok"]
             ELSE Refused

\* ------------------------------------------------------------ admin console
\* Debt.update_payment_status: an active debt without balance becomes paid and
\* is saved. d is the handler's copy of the row and stored the row the
\* database holds; the result is the row the database holds afterwards.
update_payment_status(d, stored) ==
    IF balance(d) <= 0 /\ d.status = "active"
    THEN [d EXCEPT !.status = "paid"]
    ELSE stored

\* The Payment row admin_approve_payment saves: completed, verified_at the
\* current time.
Approved(payment) ==
    PaymentSave([payment EXCEPT !.status = "completed", !.verified_at = Now(@)])

\* admin_approve_payment: the superuser sets a payment to completed.
admin_approve_payment(u, payment_id) ==
    IF ~is_superuser(u) THEN Refused
    ELSE IF payment_id \notin DOMAIN payments THEN Refused
    ELSE LET payment == payments[payment_id]
             id == payment.debt
         IN  [Refused EXCEPT
                !.payments = [payments EXCEPT ![payment_id] = Approved(@)],
                !.debts = [debts EXCEPT ![id] =
                              update_payment_status(
                                  [debts[id] EXCEPT !.paid_amount = @ + payment.amount],
                                  debts[id])],
                !.outcome = "ok"]

\* admin_reject_payment: the superuser sets a payment to rejected.
admin_reject_payment(u, payment_id) ==
    IF ~is_superuser(u) THEN Refused
    ELSE IF payment_id \notin DOMAIN payments THEN Refused
    ELSE [Refused EXCEPT
            !.payments = [payments EXCEPT ![payment_id].status = "rejected"],
            !.outcome = "ok"]

\* Debt.TYPE_CHOICES
TYPE_CHOICES == {"money", "product"}

\* debts_edit: the superuser's form writes the amount (0 unless the type is
\* money) and the status it is given.
debts_edit(u, id, type, amount, status) ==
    IF ~is_superuser(u) THEN Refused
    ELSE IF id \notin DOMAIN debts THEN Refused
    ELSE [Refused EXCEPT
            !.debts = [debts EXCEPT
                          ![id].amount = IF type = "money" THEN amount ELSE 0,
                          ![id].status = status],
            !.outcome = "ok"]

\* ------------------------------------------------------------------ requests
\* The ids a URL may name.
DebtIds == 1..MaxDebts
PaymentIds == 1..MaxPayments

\* The model allocates no Debt id above MaxDebts and no Payment id above
\* MaxPayments.
DebtRoom == nextDebtId <= MaxDebts
PaymentRoom == nextPaymentId <= MaxPayments

\* The model follows MaxAdminRequests requests of the superuser's console.
AdminRoom == adminRequests < MaxAdminRequests

\* One action per handler: a POST with any input.
AddDebt ==
    \E u \in Debtors, username \in Usernames, amount \in 0..MaxAmount :
        /\ DebtRoom
        /\ Respond(Request("add_debt", u, nextDebtId, <<amount>>, username),
                   add_debt(u, username, amount))

EditDebt ==
    \E u \in DebtorSenders, id \in DebtIds, username \in Usernames, amount \in 0..MaxAmount :
        Respond(Request("edit_debt", u, id, <<amount>>, username),
                edit_debt(u, id, username, amount))

ConfirmDebt ==
    \E u \in CreditorSenders, id \in DebtIds :
        Respond(Request("confirm_debt", u, id, <<>>, ""), confirm_debt(u, id))

RejectDebt ==
    \E u \in CreditorSenders, id \in DebtIds :
        Respond(Request("reject_debt", u, id, <<>>, ""), reject_debt(u, id))

UploadProofOfRelease ==
    \E u \in CreditorSenders, id \in DebtIds, f \in FileInputs :
        Respond(Request("upload_proof_of_release", u, id, <<>>, f),
                upload_proof_of_release(u, id, f))

SubmitPayment ==
    \E u \in DebtorSenders, id \in DebtIds, m \in MethodInputs, a \in AmountInputs :
        Respond(Request("submit_payment", u, id, a, m), submit_payment(u, id, m, a))

GcashPayment ==
    \E u \in DebtorSenders, r \in ReceiptOutcomes :
        /\ PaymentRoom
        /\ Respond(Request("gcash_payment", u, session[u].payment_debt_id,
                           <<session[u].payment_amount>>, r),
                   gcash_payment(u, r))

UploadDebtorProof ==
    \E u \in DebtorSenders, f \in FileInputs :
        /\ PaymentRoom
        /\ Respond(Request("upload_debtor_proof", u, session[u].payment_debt_id,
                           <<session[u].payment_amount>>, f),
                   upload_debtor_proof(u, f))

ConfirmCashPayment ==
    \E u \in CreditorSenders, p \in PaymentIds, a \in ActionInputs, r \in ReceiptOutcomes :
        Respond(Request("confirm_cash_payment", u, p, <<>>, a),
                confirm_cash_payment(u, p, a, r))

MarkAsPaid ==
    \E u \in CreditorSenders, id \in DebtIds, a \in AmountInputs, f \in FileInputs :
        /\ PaymentRoom
        /\ Respond(Request("mark_as_paid", u, id, a, f), mark_as_paid(u, id, a, f))

DeleteDebtRequest ==
    \E u \in DebtorSenders, id \in DebtIds :
        Respond(Request("delete_debt", u, id, <<>>, ""), delete_debt(u, id))

CreditorDeleteDebt ==
    \E u \in CreditorSenders, id \in DebtIds :
        Respond(Request("creditor_delete_debt", u, id, <<>>, ""),
                creditor_delete_debt(u, id))

AdminApprovePayment ==
    \E u \in ConsoleSenders, p \in PaymentIds :
        /\ AdminRoom
        /\ Respond(Request("admin_approve_payment", u, p, <<>>, ""),
                   admin_approve_payment(u, p))

AdminRejectPayment ==
    \E u \in ConsoleSenders, p \in PaymentIds :
        /\ AdminRoom
        /\ Respond(Request("admin_reject_payment", u, p, <<>>, ""),
                   admin_reject_payment(u, p))

DebtsEdit ==
    \E u \in ConsoleSenders, id \in DebtIds, t \in TYPE_CHOICES, a \in 1..MaxAmount,
       s \in STATUS_CHOICES :
        /\ AdminRoom
        /\ Respond(Request("debts_edit", u, id, <<IF t = "money" THEN a ELSE 0>>, s),
                   debts_edit(u, id, t, a, s))

\* The requests of debtors and creditors that the lifecycle consists of.
NextLifecycle ==
    \/ AddDebt
    \/ EditDebt
    \/ ConfirmDebt
    \/ RejectDebt
    \/ UploadProofOfRelease
    \/ SubmitPayment
    \/ GcashPayment
    \/ UploadDebtorProof
    \/ ConfirmCashPayment
    \/ MarkAsPaid

\* Every handler: the lifecycle, the two delete requests and the superuser's
\* console.
Next ==
    \/ NextLifecycle
    \/ DeleteDebtRequest
    \/ CreditorDeleteDebt
    \/ AdminApprovePayment
    \/ AdminRejectPayment
    \/ DebtsEdit

Spec == Init /\ [][Next]_vars

\* The lifecycle requests of debtors and creditors only.
SpecLifecycle == Init /\ [][NextLifecycle]_vars

\* Every request of a debtor or a creditor: the lifecycle and the two delete
\* requests.
NextUsers ==
    \/ NextLifecycle
    \/ DeleteDebtRequest
    \/ CreditorDeleteDebt

\* The requests of debtors and creditors, without the superuser's console.
SpecUsers == Init /\ [][NextUsers]_vars

\* ------------------------------------------------------ requests in flight
\* No handler opens a transaction or locks a row: every query of a request is
\* committed by itself, and another thread's queries run in between. The two
\* handlers that book a payment are followed query by query; a thread keeps
\* the model instances it has loaded and saves them as it holds them.

\* The instance a thread holds of the request it handles.
Handling(w) == inflight[w]

\* Threads that will insert a Payment row and have not done so yet.
Reserved == {w \in Workers : Handling(w).pc = "debt_loaded" /\ Handling(w).op = "gcash_payment"}

\* The model allocates no Payment id above MaxPayments, the rows that
\* threads are about to insert included.
ConcurrentRoom == nextPaymentId + Cardinality(Reserved) <= MaxPayments

\* No request is in flight.
AllIdle == \A w \in Workers : Handling(w) = Idle

\* confirm_cash_payment, first query: get_object_or_404(Payment, id=payment_id).
LoadPayment(w) ==
    \E u \in CreditorSenders, p \in DOMAIN payments :
        /\ Handling(w) = Idle
        /\ inflight' = [inflight EXCEPT ![w] =
                           [pc |-> "payment_loaded", op |-> "confirm_cash_payment",
                            actor |-> u, payment_id |-> p, payment |-> payments[p]]]
        /\ UNCHANGED <<debts, payments, session, nextDebtId, nextPaymentId,
                       notifications, adminRequests, last>>

\* confirm_cash_payment, second query and the guards: payment.debt loads the
\* Debt row, which the instance keeps; the creditor and the status of the
\* loaded Payment are tested; then the 'action' field of the form is read,
\* and a form without a known action writes nothing.
LoadPaymentDebt(w) ==
    \E a \in ActionInputs :
        /\ Handling(w).pc = "payment_loaded"
        /\ LET r == Handling(w)
               d == debts[r.payment.debt]
           IN  inflight' = [inflight EXCEPT ![w] =
                   IF \/ d.creditor # r.actor
                      \/ AlreadyProcessed(r.payment)
                      \/ a \notin {"confirm", "reject"}
                   THEN Idle
                   ELSE [pc |-> "guarded", op |-> r.op, actor |-> r.actor,
                         payment_id |-> r.payment_id, action |-> a,
                         payment |-> r.payment, debt |-> d]]
    /\ UNCHANGED <<debts, payments, session, nextDebtId, nextPaymentId,
                   notifications, adminRequests, last>>

\* confirm_cash_payment, payment.save(): the loaded Payment with its new
\* status.
SavePayment(w) ==
    /\ Handling(w).pc = "guarded"
    /\ LET r == Handling(w)
       IN  /\ payments' = [payments EXCEPT ![r.payment_id] =
                   IF r.action = "confirm" THEN Confirmed(r.payment, @)
                   ELSE [r.payment EXCEPT !.status = "rejected"]]
           /\ inflight' = [inflight EXCEPT ![w].pc = "payment_saved"]
    /\ UNCHANGED <<debts, session, nextDebtId, nextPaymentId, notifications,
                   adminRequests, last>>

\* confirm_cash_payment, debt.save() and the notification: the loaded Debt
\* with the amount added to the paid_amount it was loaded with, or returned
\* to active.
SavePaymentDebt(w) ==
    /\ Handling(w).pc = "payment_saved"
    /\ LET r == Handling(w)
           id == r.payment.debt
           paid == [r.debt EXCEPT !.paid_amount = @ + r.payment.amount]
       IN  /\ debts' = [debts EXCEPT ![id] =
                   IF r.action = "reject" THEN ReturnToActive(r.debt)
                   ELSE IF Settles(r.debt, r.payment.amount)
                        THEN [paid EXCEPT !.status = "paid"]
                        ELSE [paid EXCEPT !.status = "active"]]
           /\ notifications' =
                   <<Notification(r.payment.payer,
                                  IF r.action = "confirm" THEN "payment_confirmed"
                                  ELSE "payment_rejected", id)>>
           /\ last' = [req |-> Request(r.op, r.actor, r.payment_id, <<>>, r.action),
                       outcome |-> "ok"]
    /\ inflight' = [inflight EXCEPT ![w] = Idle]
    /\ UNCHANGED <<payments, session, nextDebtId, nextPaymentId, adminRequests>>

\* gcash_payment, the session and the first query: get_object_or_404(Debt,
\* id=debt_id) and the amount kept in the session.
LoadDebt(w) ==
    \E u \in DebtorSenders :
        /\ Handling(w) = Idle
        /\ ConcurrentRoom
        /\ session[u].payment_debt_id \in DOMAIN debts
        /\ debts[session[u].payment_debt_id].debtor = u
        /\ inflight' = [inflight EXCEPT ![w] =
                           [pc |-> "debt_loaded", op |-> "gcash_payment", actor |-> u,
                            payment_amount |-> session[u].payment_amount,
                            debt_id |-> session[u].payment_debt_id,
                            debt |-> debts[session[u].payment_debt_id]]]
        /\ UNCHANGED <<debts, payments, session, nextDebtId, nextPaymentId,
                       notifications, adminRequests, last>>

\* gcash_payment, Payment.objects.create: the completed Payment.
CreatePayment(w) ==
    /\ Handling(w).pc = "debt_loaded"
    /\ LET r == Handling(w)
       IN  payments' = Put(payments, nextPaymentId,
                           NewPayment(r.debt_id, r.actor, r.payment_amount,
                                      "gcash", "completed"))
    /\ nextPaymentId' = nextPaymentId + 1
    /\ inflight' = [inflight EXCEPT ![w].pc = "payment_created"]
    /\ UNCHANGED <<debts, session, nextDebtId, notifications, adminRequests, last>>

\* gcash_payment, debt.save(), the session keys and the notifications: the
\* loaded Debt with the amount added to the paid_amount it was loaded with.
SaveDebt(w) ==
    /\ Handling(w).pc = "payment_created"
    /\ LET r == Handling(w)
       IN  /\ debts' = [debts EXCEPT ![r.debt_id] = AddPaid(r.debt, r.payment_amount)]
           /\ session' = [session EXCEPT ![r.actor] = NoSession]
           /\ notifications' =
                   <<Notification(r.actor, "payment_success", r.debt_id),
                     Notification(r.debt.creditor, "payment_received", r.debt_id)>>
           /\ last' = [req |-> Request(r.op, r.actor, r.debt_id,
                                       <<r.payment_amount>>, "stored"),
                       outcome |-> "ok"]
    /\ inflight' = [inflight EXCEPT ![w] = Idle]
    /\ UNCHANGED <<payments, nextDebtId, nextPaymentId, adminRequests>>

\* The requests that lead to a payment, handled one at a time while no other
\* request is in flight, and the two booking handlers query by query.
NextConcurrent ==
    \/ AllIdle /\ AddDebt
    \/ AllIdle /\ ConfirmDebt
    \/ AllIdle /\ SubmitPayment
    \/ AllIdle /\ UploadDebtorProof
    \/ \E w \in Workers : LoadPayment(w)
    \/ \E w \in Workers : LoadPaymentDebt(w)
    \/ \E w \in Workers : SavePayment(w)
    \/ \E w \in Workers : SavePaymentDebt(w)
    \/ \E w \in Workers : LoadDebt(w)
    \/ \E w \in Workers : CreatePayment(w)
    \/ \E w \in Workers : SaveDebt(w)

\* Two threads handling the payment requests of one debtor and one creditor.
SpecConcurrent == Init /\ [][NextConcurrent]_vars

\* ===================================================================== claims
\* The response res wrote nothing: tables, session and id sequences are as
\* before and no Notification was inserted.
NothingWritten(res) ==
    /\ res.debts = debts
    /\ res.payments = payments
    /\ res.session = session
    /\ res.nextDebtId = nextDebtId
    /\ res.nextPaymentId = nextPaymentId
    /\ res.notifications = <<>>

Min(a, b) == IF a <= b THEN a ELSE b

\* C1: every Debt satisfies paid_amount <= amount in every state the lifecycle
\* requests reach.
C1_PaidWithinAmount ==
    \A id \in DOMAIN debts : debts[id].paid_amount <= debts[id].amount

\* C2: for every Debt the amounts of its completed Payments add up to its
\* paid_amount.
C2_PaidIsSumOfCompleted ==
    \A id \in DOMAIN debts :
        SumAmounts(payments, CompletedOf(payments, id)) = debts[id].paid_amount

\* C3: confirm_cash_payment on a Payment that is not pending_confirmation is
\* refused, whoever sends it and whatever the action: the Payment, the Debt's
\* paid_amount and the Debt's status stay as they are.
C3_ConfirmOnlyPending ==
    \A u \in Users, p \in DOMAIN payments, a \in ActionInputs, r \in ReceiptOutcomes :
        payments[p].status # "pending_confirmation" =>
            LET res == confirm_cash_payment(u, p, a, r)
            IN  /\ res.outcome = "refused"
                /\ NothingWritten(res)

\* C3 witness: the creditor has just confirmed a cash Payment, which is now
\* completed, so that a second confirmation meets a Payment already applied.
C3_Witness ==
    /\ last.req.op = "confirm_cash_payment"
    /\ last.req.choice = "confirm"
    /\ last.outcome = "ok"
    /\ last.req.id \in DOMAIN payments
    /\ payments[last.req.id].status = "completed"
    /\ debts[payments[last.req.id].debt].paid_amount >= payments[last.req.id].amount

\* C4: submit_payment with an amount <= 0 or above the Debt's balance is
\* refused and writes no Debt, Payment, Notification or session key.
C4_SubmitRefusesBadAmount ==
    \A u \in Users, id \in DOMAIN debts, m \in MethodInputs, a \in AmountInputs :
        (a # <<>> /\ (a[1] <= 0 \/ a[1] > balance(debts[id]))) =>
            LET res == submit_payment(u, id, m, a)
            IN  /\ res.outcome = "refused"
                /\ NothingWritten(res)

\* C4 witness: a partly paid Debt whose debtor holds no payment in the session:
\* the balance is accepted as an amount and the full amount of the Debt, which
\* is above the balance, is refused.
C4_Witness ==
    \E id \in DOMAIN debts :
        LET d == debts[id]
        IN  /\ d.paid_amount > 0
            /\ balance(d) > 0
            /\ last.req.op = "gcash_payment"
            /\ session[d.debtor] = NoSession
            /\ submit_payment(d.debtor, id, "gcash", <<balance(d)>>).outcome = "ok"
            /\ submit_payment(d.debtor, id, "gcash", <<d.amount>>).outcome = "refused"

\* C5: mark_as_paid of the Debt's creditor with a proof and an entered amount a
\* inserts one completed cash Payment of min(a, balance), adds exactly that to
\* paid_amount, sets the status to paid when no balance is left and leaves it
\* otherwise, and is never refused for an amount above the balance.
C5_MarkAsPaidCaps ==
    \A id \in DOMAIN debts, a \in AmountInputs :
        a # <<>> =>
            LET d == debts[id]
                capped == Min(a[1], balance(d))
                res == mark_as_paid(d.creditor, id, a, "file")
                after == res.debts[id]
            IN  /\ res.outcome = "ok"
                /\ DOMAIN res.payments = DOMAIN payments \cup {nextPaymentId}
                /\ nextPaymentId \notin DOMAIN payments
                /\ \A p \in DOMAIN payments : res.payments[p] = payments[p]
                /\ res.payments[nextPaymentId] =
                       NewPayment(id, d.debtor, capped, "cash", "completed")
                /\ after.paid_amount = d.paid_amount + capped
                /\ after.status = IF balance(after) <= 0 THEN "paid" ELSE d.status
                /\ after.amount = d.amount

\* C6: a step sets a Debt's status to paid only when the Debt has no balance
\* left after the step.
C6_PaidOnlyWithoutBalance ==
    [][\A id \in DOMAIN debts \cap DOMAIN debts' :
          (debts[id].status # "paid" /\ debts'[id].status = "paid") =>
              balance(debts'[id]) <= 0]_vars

\* C7: a Debt has status paid if and only if its balance is 0.
C7_PaidIffNoBalance ==
    \A id \in DOMAIN debts :
        (debts[id].status = "paid") <=> (balance(debts[id]) = 0)

\* C8: when the creditor rejects a Payment that is pending_confirmation, the
\* Payment becomes rejected and its Debt becomes active whatever its status
\* was, with amount and paid_amount as before.
C8_RejectReturnsToActive ==
    \A p \in DOMAIN payments, r \in ReceiptOutcomes :
        payments[p].status = "pending_confirmation" =>
            LET id == payments[p].debt
                res == confirm_cash_payment(debts[id].creditor, p, "reject", r)
            IN  /\ res.outcome = "ok"
                /\ res.payments[p] = [payments[p] EXCEPT !.status = "rejected"]
                /\ res.debts[id] = [debts[id] EXCEPT !.status = "active"]

\* C8 witness: the creditor has just rejected a cash Payment of a Debt that
\* was fully paid in the meantime: the Payment is rejected and the Debt is
\* active again with paid_amount = amount.
C8_Witness ==
    /\ last.req.op = "confirm_cash_payment"
    /\ last.req.choice = "reject"
    /\ last.outcome = "ok"
    /\ last.req.id \in DOMAIN payments
    /\ payments[last.req.id].status = "rejected"
    /\ debts[payments[last.req.id].debt].status = "active"
    /\ debts[payments[last.req.id].debt].paid_amount =
           debts[payments[last.req.id].debt].amount

\* C9: gcash_payment and upload_debtor_proof insert a Payment only for a Debt
\* whose status is active or pending_confirmation.
C9_PaymentOnlyForPayableDebt ==
    [][(/\ last'.req.op \in {"gcash_payment", "upload_debtor_proof"}
        /\ DOMAIN payments' # DOMAIN payments)
       => debts[last'.req.id].status \in {"active", "pending_confirmation"}]_vars

\* The other party of Debt row d for user u.
CounterParty(d, u) == IF u = d.debtor THEN d.creditor ELSE d.debtor

\* The step changes the status of a Debt or of a Payment, or inserts one.
StatusChanges ==
    \/ \E id \in DOMAIN debts' :
          id \notin DOMAIN debts \/ debts'[id].status # debts[id].status
    \/ \E p \in DOMAIN payments' :
          p \notin DOMAIN payments \/ payments'[p].status # payments[p].status

\* C10: a successful request that changes the status of a Debt or a Payment
\* inserts exactly one Notification, for the other party of the Debt; a
\* successful gcash payment inserts exactly two.
C10_OneNotification ==
    [][(last'.outcome = "ok" /\ StatusChanges) =>
          IF last'.req.op = "gcash_payment"
          THEN Len(notifications') = 2
          ELSE /\ Len(notifications') = 1
               /\ notifications'[1].related_debt \in DOMAIN debts'
               /\ notifications'[1].user =
                      CounterParty(debts'[notifications'[1].related_debt],
                                   last'.req.actor)]_vars

\* The debtors who hold an accepted payment in the session: submit_payment
\* kept a Debt of theirs and an amount there.
HoldsPayment(u) ==
    /\ account_type(u) = "debtor"
    /\ session[u].payment_debt_id \in DOMAIN debts
    /\ debts[session[u].payment_debt_id].debtor = u

\* C11: when a debtor who holds an accepted payment uploads the proof of a cash
\* payment, one Payment with status pending_confirmation is inserted for the
\* amount kept in the session, the Debt becomes awaiting_confirmation, and the
\* Debt's paid_amount and amount stay as they are.
C11_CashProofLeavesPaidAmount ==
    \A u \in Users :
        HoldsPayment(u) =>
            LET id == session[u].payment_debt_id
                res == upload_debtor_proof(u, "file")
            IN  /\ res.outcome = "ok"
                /\ DOMAIN res.payments = DOMAIN payments \cup {nextPaymentId}
                /\ nextPaymentId \notin DOMAIN payments
                /\ \A p \in DOMAIN payments : res.payments[p] = payments[p]
                /\ res.payments[nextPaymentId] =
                       NewPayment(id, u, session[u].payment_amount, "cash",
                                  "pending_confirmation")
                /\ res.debts[id] = [debts[id] EXCEPT !.status = "awaiting_confirmation"]
                /\ \A other \in DOMAIN debts \ {id} : res.debts[other] = debts[other]

\* C11 witness: a debtor has just uploaded the proof of a cash payment for a
\* partly paid Debt: the Payment waits for confirmation, the Debt is
\* awaiting_confirmation and its paid_amount is what was paid before.
C11_Witness ==
    /\ last.req.op = "upload_debtor_proof"
    /\ last.outcome = "ok"
    /\ (nextPaymentId - 1) \in DOMAIN payments
    /\ payments[nextPaymentId - 1].status = "pending_confirmation"
    /\ payments[nextPaymentId - 1].amount > 0
    /\ last.req.id \in DOMAIN debts
    /\ debts[last.req.id].status = "awaiting_confirmation"
    /\ debts[last.req.id].paid_amount > 0
    /\ debts[last.req.id].paid_amount < debts[last.req.id].amount

\* C12: when the creditor confirms a Payment that is pending_confirmation, the
\* Payment becomes completed, the Debt's paid_amount grows by the Payment's
\* amount, and the Debt's status becomes paid if the balance of the saved row
\* is <= 0 and active otherwise.
C12_ConfirmAppliesPayment ==
    \A p \in DOMAIN payments, r \in ReceiptOutcomes :
        payments[p].status = "pending_confirmation" =>
            LET id == payments[p].debt
                res == confirm_cash_payment(debts[id].creditor, p, "confirm", r)
                after == res.debts[id]
            IN  /\ res.payments[p].status = "completed"
                /\ res.payments[p].amount = payments[p].amount
                /\ after.paid_amount = debts[id].paid_amount + payments[p].amount
                /\ after.amount = debts[id].amount
                /\ after.status = IF balance(after) <= 0 THEN "paid" ELSE "active"

\* C13: gcash_payment of a debtor who holds an accepted payment inserts one
\* completed gcash Payment for the amount kept in the session, adds that
\* amount to the Debt's paid_amount in the same step, and sets the status to
\* paid exactly when the balance of the saved row is 0.
C13_GcashAppliesAtOnce ==
    \A u \in Users :
        HoldsPayment(u) =>
            LET id == session[u].payment_debt_id
                res == gcash_payment(u, "stored")
                after == res.debts[id]
            IN  /\ res.outcome = "ok"
                /\ DOMAIN res.payments = DOMAIN payments \cup {nextPaymentId}
                /\ res.payments[nextPaymentId] =
                       NewPayment(id, u, session[u].payment_amount, "gcash",
                                  "completed")
                /\ after.paid_amount =
                       debts[id].paid_amount + session[u].payment_amount
                /\ after.status =
                       IF balance(after) = 0 THEN "paid" ELSE debts[id].status

\* C14: paid and rejected are terminal Debt states: no step changes the status
\* of a Debt that is paid or rejected.
C14_DebtTerminal ==
    [][\A id \in DOMAIN debts \cap DOMAIN debts' :
          debts[id].status \in {"paid", "rejected"} =>
              debts'[id].status = debts[id].status]_vars

\* C15: completed and rejected are terminal Payment states: no step changes
\* the status of a Payment that is completed or rejected.
C15_PaymentTerminal ==
    [][\A p \in DOMAIN payments \cap DOMAIN payments' :
          payments[p].status \in {"completed", "rejected"} =>
              payments'[p].status = payments[p].status]_vars

\* C16: requests handled at the same time never book a payment twice and
\* never lose one: whenever no request is in flight, the paid_amount of every
\* Debt is the sum of the amounts of its completed Payments, as it is when the
\* requests are handled one after the other.
C16_NoLostOrDoubleBooking ==
    AllIdle =>
        \A id \in DOMAIN debts :
            debts[id].paid_amount = SumAmounts(payments, CompletedOf(payments, id))

\* C17: every transition is all-or-nothing: a request that an exception ends
\* leaves the Debt table, the Payment table and the session as they were, so
\* no Payment is recorded without its notification.
C17_AllOrNothing ==
    [][last'.outcome = "error" =>
          /\ debts' = debts
          /\ payments' = payments
          /\ session' = session]_vars

\* C18: whenever a request sets a Payment to rejected, the Debt of that Payment
\* is active after the same request.
C18_RejectedPaymentActivatesDebt ==
    [][\A p \in DOMAIN payments \cap DOMAIN payments' :
          (payments[p].status # "rejected" /\ payments'[p].status = "rejected") =>
              /\ payments[p].debt \in DOMAIN debts'
              /\ debts'[payments[p].debt].status = "active"]_vars

\* C19: a Debt enters awaiting_confirmation only from active and only by
\* upload_debtor_proof, and leaves it only to active or paid and only by
\* confirm_cash_payment.
C19_AwaitingConfirmationMoves ==
    [][\A id \in DOMAIN debts \cap DOMAIN debts' :
          /\ (/\ debts[id].status # "awaiting_confirmation"
              /\ debts'[id].status = "awaiting_confirmation") =>
                 /\ debts[id].status = "active"
                 /\ last'.req.op = "upload_debtor_proof"
          /\ (/\ debts[id].status = "awaiting_confirmation"
              /\ debts'[id].status # "awaiting_confirmation") =>
                 /\ debts'[id].status \in {"active", "paid"}
                 /\ last'.req.op = "confirm_cash_payment"]_vars

\* C20: a request moves a Debt from pending_confirmation to active only if it
\* is confirm_debt or upload_proof_of_release with a file sent by the creditor
\* of that Debt, and to rejected only if it is that creditor's reject_debt.
C20_Moves ==
    \A id \in DOMAIN debts \cap DOMAIN debts' :
        debts[id].status = "pending_confirmation" =>
            /\ debts'[id].status = "active" =>
                  /\ last'.req.actor = debts[id].creditor
                  /\ \/ last'.req.op = "confirm_debt"
                     \/ /\ last'.req.op = "upload_proof_of_release"
                        /\ last'.req.choice = "file"
            /\ debts'[id].status = "rejected" =>
                  /\ last'.req.actor = debts[id].creditor
                  /\ last'.req.op = "reject_debt"

\* C20: in every state, confirm_debt, reject_debt and upload_proof_of_release
\* sent by anyone but the creditor of the Debt write nothing; sent by the
\* creditor for a pending Debt they make it active (upload_proof_of_release
\* only with a file) or rejected; confirm_debt and reject_debt for a Debt in
\* any other status write nothing; and upload_proof_of_release with a file for
\* an active Debt is accepted and leaves the Debt active.
C20_Handlers ==
    \A id \in DOMAIN debts :
        LET d == debts[id]
            confirmed == confirm_debt(d.creditor, id)
            rejected == reject_debt(d.creditor, id)
            uploaded == upload_proof_of_release(d.creditor, id, "file")
        IN  /\ \A u \in Users \ {d.creditor}, f \in FileInputs :
                  /\ NothingWritten(confirm_debt(u, id))
                  /\ NothingWritten(reject_debt(u, id))
                  /\ NothingWritten(upload_proof_of_release(u, id, f))
            /\ NothingWritten(upload_proof_of_release(d.creditor, id, "none"))
            /\ d.status = "pending_confirmation" =>
                  /\ confirmed.debts = [debts EXCEPT ![id].status = "active"]
                  /\ rejected.debts = [debts EXCEPT ![id].status = "rejected"]
                  /\ uploaded.debts = [debts EXCEPT ![id].status = "active"]
            /\ d.status # "pending_confirmation" =>
                  /\ NothingWritten(confirmed)
                  /\ NothingWritten(rejected)
            /\ d.status = "active" =>
                  /\ uploaded.outcome = "ok"
                  /\ uploaded.debts = debts
                  /\ uploaded.payments = payments

C21_Removals ==
    \A id \in DOMAIN debts :
        id \notin DOMAIN debts' =>
            /\ \A p \in DOMAIN payments' : payments'[p].debt # id
            /\ \/ /\ last'.req.op = "delete_debt"
                  /\ last'.req.actor = debts[id].debtor
                  /\ debts[id].status \in {"pending_confirmation", "rejected"}
               \/ /\ last'.req.op = "creditor_delete_debt"
                  /\ last'.req.actor = debts[id].creditor
                  /\ debts[id].status = "paid"

\* C21: in every state, a delete request of any user for an active or
\* awaiting_confirmation Debt writes nothing.
C21_Refusals ==
    \A id \in DOMAIN debts, u \in Users :
        debts[id].status \in {"active", "awaiting_confirmation"} =>
            /\ NothingWritten(delete_debt(u, id))
            /\ NothingWritten(creditor_delete_debt(u, id))

\* C21: both parts, in every state and at every step.
C21_DeleteOnlyWhenAllowed == []C21_Refusals /\ [][C21_Removals]_vars

\* C21 witness: the creditor has just deleted a paid Debt that had a Payment:
\* the Debt and the Payment are gone.
C21_Witness ==
    /\ last.req.op = "creditor_delete_debt"
    /\ last.outcome = "ok"
    /\ last.req.id \notin DOMAIN debts
    /\ payments = <<>>
    /\ nextPaymentId > 1

\* C22: in every state, delete_debt sent by the debtor of a paid Debt is
\* carried out and changes nothing but hidden_from_debtor of that Debt, which
\* becomes true: the row stays, with its status, amount and paid_amount, and
\* so do all Payments.
C22_PaidDebtIsHidden ==
    \A id \in DOMAIN debts :
        debts[id].status = "paid" =>
            LET res == delete_debt(debts[id].debtor, id)
            IN  /\ res.outcome = "ok"
                /\ res.debts = [debts EXCEPT ![id].hidden_from_debtor = TRUE]
                /\ res.payments = payments
                /\ res.session = session
                /\ res.nextDebtId = nextDebtId
                /\ res.nextPaymentId = nextPaymentId
                /\ res.notifications = <<>>

\* C22 witness: the debtor has just deleted a paid Debt: the Debt is still in
\* the table, paid and hidden from the debtor, with its completed Payment.
C22_Witness ==
    /\ last.req.op = "delete_debt"
    /\ last.outcome = "ok"
    /\ last.req.id \in DOMAIN debts
    /\ debts[last.req.id].status = "paid"
    /\ debts[last.req.id].hidden_from_debtor
    /\ debts[last.req.id].paid_amount = debts[last.req.id].amount
    /\ CompletedOf(payments, last.req.id) # {}

\* C23: a completed Payment has payment_date and verified_at, and a step
\* never changes a payment_date or a verified_at that is set.
C23_TimestampsSetOnce ==
    [][/\ \A p \in DOMAIN payments' :
             payments'[p].status = "completed" =>
                 /\ payments'[p].payment_date # 0
                 /\ payments'[p].verified_at # 0
       /\ \A p \in DOMAIN payments \cap DOMAIN payments' :
             /\ payments[p].payment_date # 0 =>
                    payments'[p].payment_date = payments[p].payment_date
             /\ payments[p].verified_at # 0 =>
                    payments'[p].verified_at = payments[p].verified_at]_vars

\* C24: every Payment in the table has an amount above 0.
C24_PaymentAmountPositive ==
    \A p \in DOMAIN payments : payments[p].amount > 0

\* The response res is a refusal that wrote nothing.
Forbidden(res) == res.outcome = "refused" /\ NothingWritten(res)

\* C25: in every state and for every Debt, each creditor handler sent by a user
\* who is not the creditor of the Debt, and each debtor handler sent by a user
\* who is not its debtor, is refused and writes nothing, whatever the inputs.
C25_OnlyThePartyActs ==
    \A id \in DOMAIN debts, u \in Users :
        /\ u # debts[id].creditor =>
              /\ Forbidden(confirm_debt(u, id))
              /\ Forbidden(reject_debt(u, id))
              /\ Forbidden(creditor_delete_debt(u, id))
              /\ \A f \in FileInputs :
                    /\ Forbidden(upload_proof_of_release(u, id, f))
                    /\ \A a \in AmountInputs : Forbidden(mark_as_paid(u, id, a, f))
              /\ \A p \in DOMAIN payments, a \in ActionInputs, r \in ReceiptOutcomes :
                    payments[p].debt = id =>
                        Forbidden(confirm_cash_payment(u, p, a, r))
        /\ u # debts[id].debtor =>
              /\ Forbidden(delete_debt(u, id))
              /\ \A username \in Usernames, amount \in 0..MaxAmount :
                    Forbidden(edit_debt(u, id, username, amount))
              /\ \A m \in MethodInputs, a \in AmountInputs :
                    Forbidden(submit_payment(u, id, m, a))
              /\ session[u].payment_debt_id = id =>
                    /\ \A r \in ReceiptOutcomes : Forbidden(gcash_payment(u, r))
                    /\ \A f \in FileInputs : Forbidden(upload_debtor_proof(u, f))

\* C25 witness: a Debt of d2 waits for its creditor while the session of d1
\* still holds a payment for a Debt of that id, and a Debt with a cash Payment
\* that waits for the creditor has been seen before: the party tests of the
\* session handlers and of the creditor's handlers are what refuses.
C25_Witness ==
    \E id \in DOMAIN debts :
        /\ debts[id].debtor = "d2"
        /\ session["d1"].payment_debt_id = id
        /\ session["d1"].payment_method = "gcash"
        /\ gcash_payment("d1", "stored").outcome = "refused"
        /\ confirm_debt("c2", id).outcome = "refused"
        /\ confirm_debt(debts[id].creditor, id).outcome = "ok"

\* C26: in every state and for every sender, username and amount, add_debt
\* that is carried out was sent by a debtor with the username of a creditor
\* account, inserts one Debt of that debtor and creditor with status
\* pending_confirmation and paid_amount 0, and creates one Notification, for
\* the creditor; add_debt that is not carried out writes nothing, and it is
\* not carried out for a username that no account has or that belongs to an
\* account that is no creditor.
C26_AddDebt ==
    \A u \in Users, username \in Usernames, amount \in 0..MaxAmount :
        LET res == add_debt(u, username, amount)
            resolves == username \in Users /\ account_type(username) = "creditor"
        IN  /\ (account_type(u) = "debtor" /\ resolves /\ amount >= 1) <=>
                   res.outcome = "ok"
            /\ ~resolves => Forbidden(res)
            /\ res.outcome # "ok" => Forbidden(res)
            /\ res.outcome = "ok" =>
                  /\ DOMAIN res.debts = DOMAIN debts \cup {nextDebtId}
                  /\ \A id \in DOMAIN debts : res.debts[id] = debts[id]
                  /\ res.debts[nextDebtId].debtor = u
                  /\ res.debts[nextDebtId].creditor = username
                  /\ res.debts[nextDebtId].amount = amount
                  /\ res.debts[nextDebtId].status = "pending_confirmation"
                  /\ res.debts[nextDebtId].paid_amount = 0
                  /\ res.payments = payments
                  /\ res.notifications = <<Notification(username, "new_debt", nextDebtId)>>

\* C26 witness: a debtor has just recorded a Debt: it waits for the creditor
\* with nothing paid, the creditor has the one Notification, and the same
\* debtor's form with the username of a debtor or of nobody would be refused.
C26_Witness ==
    /\ last.req.op = "add_debt"
    /\ last.outcome = "ok"
    /\ last.req.id \in DOMAIN debts
    /\ debts[last.req.id].status = "pending_confirmation"
    /\ debts[last.req.id].paid_amount = 0
    /\ notifications = <<Notification(debts[last.req.id].creditor, "new_debt", last.req.id)>>
    /\ add_debt(last.req.actor, "d1", 1).outcome = "refused"
    /\ add_debt(last.req.actor, "nobody", 1).outcome = "refused"

\* C27: in every state, gcash_payment of a debtor who holds an accepted
\* payment and the creditor's confirmation of a waiting cash Payment go
\* through although the receipt cannot be stored: the Payment is completed,
\* its amount is added to paid_amount, the notifications are created and the
\* debtor's session holds no payment any more.
C27_ReceiptFailureDoesNotBlock ==
    /\ \A u \in Users :
          gcash_payment(u, "stored").outcome = "ok" =>
              LET id == session[u].payment_debt_id
                  res == gcash_payment(u, "error")
              IN  /\ nextPaymentId \in DOMAIN res.payments
                  /\ res.payments[nextPaymentId].status = "completed"
                  /\ res.debts[id].paid_amount =
                         debts[id].paid_amount + session[u].payment_amount
                  /\ res.notifications =
                         <<Notification(u, "payment_success", id),
                           Notification(debts[id].creditor, "payment_received", id)>>
                  /\ res.session[u] = NoSession
    /\ \A p \in DOMAIN payments :
          payments[p].status = "pending_confirmation" =>
              LET id == payments[p].debt
                  res == confirm_cash_payment(debts[id].creditor, p, "confirm", "error")
              IN  /\ res.payments[p].status = "completed"
                  /\ res.debts[id].paid_amount =
                         debts[id].paid_amount + payments[p].amount
                  /\ res.notifications =
                         <<Notification(payments[p].payer, "payment_confirmed", id)>>

\* C28: in every state a Debt has at most one Payment with status
\* pending_confirmation.
C28_OnePendingPayment ==
    \A id \in DOMAIN debts :
        Cardinality({p \in DOMAIN payments :
                        /\ payments[p].debt = id
                        /\ payments[p].status = "pending_confirmation"}) <= 1

\* C29: a step of gcash_payment or upload_debtor_proof that inserts a Payment
\* leaves no payment in the session of its sender.
C29_SessionCleared ==
    (/\ nextPaymentId' > nextPaymentId
     /\ last'.req.op \in {"gcash_payment", "upload_debtor_proof"}) =>
        session'[last'.req.actor] = NoSession

\* C29: in every state, gcash_payment and upload_debtor_proof sent by a user
\* whose session holds no payment are refused and write nothing.
C29_NothingWithoutSession ==
    \A u \in Users :
        session[u] = NoSession =>
            /\ \A r \in ReceiptOutcomes : Forbidden(gcash_payment(u, r))
            /\ \A f \in FileInputs : Forbidden(upload_debtor_proof(u, f))

\* C29: each accepted submit_payment yields at most one Payment: both parts,
\* in every state and at every step.
C29_OnePaymentPerSubmit == []C29_NothingWithoutSession /\ [][C29_SessionCleared]_vars

\* C30: in every state a Debt that is hidden from its debtor has status paid.
C30_HiddenDebtIsPaid ==
    \A id \in DOMAIN debts :
        debts[id].hidden_from_debtor => debts[id].status = "paid"
====
